---- MODULE Spec2Model ----
(***************************************************************************)
(* Model of the two easyAI games (ConnectFour, LastCoinStanding) and of    *)
(* the "stubborn greedy" move selection of easyAI/AI/StubbornGreedy.py.    *)
(* Python objects live in a heap of named allocation sites; Python values  *)
(* (None, int, str, tuple) are tagged records so that the dynamic typing   *)
(* of the comparisons in the search is kept.                               *)
(***************************************************************************)
EXTENDS Integers, Sequences, FiniteSets, TLC

(* ---------------------------------------------------------------- bounds *)
MaxDepth == 4
NegDepths == 1
MaxPlies == 1
MaxExactDepth == 1

(* --------------------------------------------------------- Python values *)
PyNone == [t |-> "None"]
PyInt(n) == [t |-> "int", i |-> n]
PyStr(s) == [t |-> "str", s |-> s]
PyTuple(e) == [t |-> "tuple", e |-> e]

\* a > b on two tuple elements (int or None): ints compare, None raises
ElemGt(a, b) ==
    IF a.t = "int" /\ b.t = "int"
    THEN (IF a.i > b.i THEN "True" ELSE "False")
    ELSE "TypeError"

\* Python's lexicographic tuple comparison x > y: the first unequal pair
\* decides; if one is a prefix of the other the longer is the greater
RECURSIVE TupleGt(_, _)
TupleGt(x, y) ==
    IF x = <<>> THEN "False"
    ELSE IF y = <<>> THEN "True"
    ELSE IF Head(x) = Head(y) THEN TupleGt(Tail(x), Tail(y))
    ELSE ElemGt(Head(x), Head(y))

\* the `>` of lines 49 and 71
PyGt(a, b) ==
    IF a.t = "tuple" /\ b.t = "tuple" THEN TupleGt(a.e, b.e)
    ELSE ElemGt(a, b)

\* -1 * value of line 47: an int is negated, a sequence repeated -1 times
\* is the empty sequence
PyNegate(value) ==
    IF value.t = "int" THEN PyInt(-1 * value.i)
    ELSE IF value.t = "tuple" THEN PyTuple(<<>>)
    ELSE [t |-> "TypeError"]

(* ------------------------------------------------------- str() and int() *)
Digits == <<"0", "1", "2", "3", "4", "5", "6", "7", "8", "9">>

RECURSIVE StrNat(_)
StrNat(n) ==
    IF n < 10 THEN <<Digits[n + 1]>>
    ELSE StrNat(n \div 10) \o <<Digits[(n % 10) + 1]>>

\* str(x) of an integer: the decimal characters, "-" first when negative
str(x) == IF x < 0 THEN <<"-">> \o StrNat(-x) ELSE StrNat(x)

DigitVal(c) == (CHOOSE k \in 1..10 : Digits[k] = c) - 1

RECURSIVE IntNat(_, _)
IntNat(s, acc) ==
    IF s = <<>> THEN acc ELSE IntNat(Tail(s), 10 * acc + DigitVal(Head(s)))

\* int(s) of a decimal string with an optional sign
int(s) == IF Head(s) = "-" THEN -IntNat(Tail(s), 0) ELSE IntNat(s, 0)

\* range(a, b) as a sequence
range(a, b) == [k \in 1..(IF b > a THEN b - a ELSE 0) |-> a + k - 1]

(* ------------------------------------------------------ TwoPlayersGame   *)
\* nopponent property of the easyAI base class
nopponent(g) == IF g.nplayer = 1 THEN 2 ELSE 1

\* switch_player of the easyAI base class
switch_player(g) == [g EXCEPT !.nplayer = nopponent(g)]

(* ------------------------------------------------------------ ConnectFour *)
Rows == 0..5
Cols == 0..6

EmptyBoard == [r \in Rows |-> [c \in Cols |-> 0]]

ConnectFour_init ==
    [cls |-> "ConnectFour", board |-> EmptyBoard, nplayer |-> 1,
     ai_move |-> PyNone]

\* pos_dir: the scan lines as <<start position, direction>>
pos_dir ==
    [k \in 1..6 |-> <<<<k - 1, 0>>, <<0, 1>>>>] \o
    [k \in 1..7 |-> <<<<0, k - 1>>, <<1, 0>>>>] \o
    [k \in 1..2 |-> <<<<k, 0>>, <<1, 1>>>>] \o
    [k \in 1..4 |-> <<<<0, k - 1>>, <<1, 1>>>>] \o
    [k \in 1..2 |-> <<<<k, 6>>, <<1, -1>>>>] \o
    [k \in 1..4 |-> <<<<0, k + 2>>, <<1, -1>>>>]

\* board[:, i].min()
ColMin(board, c) == CHOOSE v \in {board[r][c] : r \in Rows} :
                        \A w \in {board[r][c] : r \in Rows} : v <= w

C4_possible_moves_desc(g) ==
    LET asc == SelectSeq(range(0, 7), LAMBDA c : ColMin(g.board, c) = 0)
    IN  [k \in 1..Len(asc) |-> PyInt(asc[Len(asc) + 1 - k])]

C4_possible_moves(g) ==
    LET asc == SelectSeq(range(0, 7), LAMBDA c : ColMin(g.board, c) = 0)
    IN  [k \in 1..Len(asc) |-> PyInt(asc[k])]

ArgminNonZero_top(board, c) ==
    IF \E r \in Rows : board[r][c] = 0
    THEN CHOOSE r \in Rows : board[r][c] = 0 /\ \A q \in Rows : q > r => board[q][c] # 0
    ELSE 0

\* np.argmin(board[:, column] != 0): the first row whose cell is empty, and
\* row 0 when no cell of the column is empty (first index of the minimum)
ArgminNonZero(board, c) ==
    IF \E r \in Rows : board[r][c] = 0
    THEN CHOOSE r \in Rows : board[r][c] = 0 /\ \A q \in Rows : q < r => board[q][c] # 0
    ELSE 0

C4_make_move(g, column) ==
    LET line == ArgminNonZero(g.board, column.i)
    IN  [g EXCEPT !.board[line][column.i] = g.nplayer]

RECURSIVE ScanLine_noreset(_, _, _, _)
ScanLine_noreset(g, pos, direction, streak) ==
    IF ~((0 <= pos[1] /\ pos[1] <= 5) /\ (0 <= pos[2] /\ pos[2] <= 6))
    THEN FALSE
    ELSE IF g.board[pos[1]][pos[2]] = nopponent(g)
         THEN (IF streak + 1 = 4 THEN TRUE
               ELSE ScanLine_noreset(g, <<pos[1] + direction[1], pos[2] + direction[2]>>,
                                     direction, streak + 1))
         ELSE ScanLine_noreset(g, <<pos[1] + direction[1], pos[2] + direction[2]>>,
                               direction, streak)

\* the while loop of loss_condition along one scan line; TRUE when a streak
\* of four cells of the opponent is met
RECURSIVE ScanLine(_, _, _, _)
ScanLine(g, pos, direction, streak) ==
    IF ~((0 <= pos[1] /\ pos[1] <= 5) /\ (0 <= pos[2] /\ pos[2] <= 6))
    THEN FALSE
    ELSE IF g.board[pos[1]][pos[2]] = nopponent(g)
         THEN (IF streak + 1 = 4 THEN TRUE
               ELSE ScanLine(g, <<pos[1] + direction[1], pos[2] + direction[2]>>,
                             direction, streak + 1))
         ELSE ScanLine(g, <<pos[1] + direction[1], pos[2] + direction[2]>>,
                       direction, 0)

loss_condition(g) ==
    \E k \in 1..Len(pos_dir) : ScanLine(g, pos_dir[k][1], pos_dir[k][2], 0)

BoardMin(board) == CHOOSE v \in {board[r][c] : r \in Rows, c \in Cols} :
                       \A w \in {board[r][c] : r \in Rows, c \in Cols} : v <= w

C4_is_over_lossonly(g) == loss_condition(g)

C4_is_over(g) == (BoardMin(g.board) > 0) \/ loss_condition(g)

C4_scoring(g) == IF loss_condition(g) THEN -100 ELSE 0

(* ------------------------------------------------------- LastCoinStanding *)
LastCoinStanding_init ==
    [cls |-> "LastCoinStanding", nplayer |-> 1, num_coins |-> 30,
     max_coins |-> 4, ai_move |-> PyNone]

LCS_possible_moves_zero(g) ==
    LET r == range(0, g.max_coins + 1)
    IN  [k \in 1..Len(r) |-> PyStr(str(r[k]))]

LCS_possible_moves_short(g) ==
    LET r == range(1, g.max_coins)
    IN  [k \in 1..Len(r) |-> PyStr(str(r[k]))]

LCS_possible_moves(g) ==
    LET r == range(1, g.max_coins + 1)
    IN  [k \in 1..Len(r) |-> PyStr(str(r[k]))]

LCS_make_move(g, move) == [g EXCEPT !.num_coins = g.num_coins - int(move.s)]

win_strict(g) == g.num_coins < 0

win(g) == g.num_coins <= 0

LCS_is_over(g) == win(g)

LCS_scoring_neg(g) == IF win(g) THEN -100 ELSE 0

LCS_scoring(g) == IF win(g) THEN 100 ELSE 0

(* ------------------------------------------- dynamic dispatch on the class *)
possible_moves(g) ==
    IF g.cls = "ConnectFour" THEN C4_possible_moves(g) ELSE LCS_possible_moves(g)

make_move(g, move) ==
    IF g.cls = "ConnectFour" THEN C4_make_move(g, move) ELSE LCS_make_move(g, move)

is_over(g) ==
    IF g.cls = "ConnectFour" THEN C4_is_over(g) ELSE LCS_is_over(g)

game_scoring(g) ==
    IF g.cls = "ConnectFour" THEN C4_scoring(g) ELSE LCS_scoring(g)

(* ------------------------------------------------ the scoring parameter *)
\* scoring functions a caller may pass to the search: "None" selects the
\* default lambda g: g.scoring() of lines 29-30
CustomScoring(fn, g) ==
    IF fn = "num_coins" THEN g.num_coins
    ELSE Cardinality({r \in Rows : g.board[r][3] = g.nplayer})

ScoringFns(cls) ==
    IF cls = "ConnectFour" THEN {"None", "centre"} ELSE {"None", "num_coins"}

scoring(fn, g) == IF fn = "None" THEN game_scoring(g) ELSE CustomScoring(fn, g)

(* -------------------------------------------- Exact Search (negamax) *)
SetMax(S) == CHOOSE v \in S : \A w \in S : w <= v

\* apply a move and pass the turn
ApplyMove(g, move) == switch_player(make_move(g, move))

Children(S) ==
    UNION {{ApplyMove(g, possible_moves(g)[k]) : k \in 1..Len(possible_moves(g))} :
           g \in {h \in S : ~is_over(h)}}

Lookup(T, g) == (CHOOSE p \in T : p[1] = g)[2]

\* value of one state from the table of its children's values
NodeValue(g, depth, T) ==
    LET ms == possible_moves(g)
    IN  IF depth = 0 \/ is_over(g) \/ Len(ms) = 0 THEN game_scoring(g)
        ELSE SetMax({-Lookup(T, ApplyMove(g, ms[k])) : k \in 1..Len(ms)})

\* depth-bounded negamax values of every state of S, as a set of
\* <<state, value>> pairs; equal positions are solved once per depth
RECURSIVE NegamaxTable(_, _)
NegamaxTable(S, depth) ==
    IF depth = 0 THEN {<<g, game_scoring(g)>> : g \in S}
    ELSE LET T == NegamaxTable(Children(S), depth - 1)
         IN  {<<g, NodeValue(g, depth, T)>> : g \in S}

\* the search result at the root: score and first move reaching it
negamax(g, depth) ==
    LET ms == possible_moves(g)
        score == Lookup(NegamaxTable({g}, depth), g)
    IN  IF depth = 0 \/ is_over(g) \/ Len(ms) = 0
        THEN [score |-> score, move |-> PyNone]
        ELSE LET T == NegamaxTable(Children({g}), depth - 1)
                 k == CHOOSE j \in 1..Len(ms) :
                        /\ -Lookup(T, ApplyMove(g, ms[j])) = score
                        /\ \A q \in 1..(j - 1) : -Lookup(T, ApplyMove(g, ms[q])) # score
             IN  [score |-> score, move |-> ms[k]]

\* id_solve(game, range(2, 20), win_score=100): deepen until the score is
\* decisive or the depths are exhausted; returns (score, depth, move)
IdSolveFirstDepth == 2
IdSolveStopDepth == 20
win_score == 100

RECURSIVE IdSolveFrom(_, _)
IdSolveFrom(g, depth) ==
    LET r == negamax(g, depth)
    IN  IF r.score >= win_score \/ r.score <= -win_score \/ depth + 1 >= IdSolveStopDepth
        THEN [kind |-> "id_solve", score |-> r.score, depth |-> depth, move |-> r.move]
        ELSE IdSolveFrom(g, depth + 1)

id_solve(g) == IdSolveFrom(g, IdSolveFirstDepth)

(* ------------------------------------------------------------- the heap *)
\* allocation sites: the caller's game and the three copy.deepcopy calls
Sites == {"game", "copy37", "copy68", "copy73"}

NoObject == [cls |-> "unallocated"]
Unbound == [t |-> "unbound"]
NoResult == [kind |-> "none"]
NoCall == [op |-> "none"]

deepcopy_alias(h, src, site) == [heap |-> h, ref |-> src]

\* copy.deepcopy(h[src]): a fresh object equal to the source
deepcopy(h, src, site) == [heap |-> [h EXCEPT ![site] = h[src]], ref |-> site]

\* obj.make_move(move) on the object a reference points to
HeapMakeMove(h, ref, move) == [h EXCEPT ![ref] = make_move(h[ref], move)]

RolloutRange_wide(depth_arg) == range(0, depth_arg + 2)

\* range(2, final_depth) of line 64
RolloutRange(depth_arg) == range(2, depth_arg)

VARIABLES
    heap,                  \* Site -> game object
    root_game,             \* references (sites) held by the locals
    test_game,
    best_branch_game,
    pc,                    \* position of the search call
    final_depth,
    scoring_fn,
    top_possible_moves,    \* possible_moves of line 32
    mi,                    \* position of the loop of line 36
    best_move,
    best_value,
    di,                    \* position of the loop of line 64
    branch_possible_moves,
    bi,                    \* position of the loop of line 67
    best_branch_value,
    exact,                 \* result of the last exact search
    evals,                 \* history: calls of the scoring function
    nmoves,                \* history: moves applied to an object since the root
    ply_start,             \* history: rollout state at the start of the ply
    pre_game,              \* history: the caller's game when the call began
    rollout_scores,        \* history: best_branch_value returned per candidate
    last_call              \* history: the last direct make_move call and its outcome

vars == <<heap, root_game, test_game, best_branch_game, pc, final_depth,
          scoring_fn, top_possible_moves, mi, best_move, best_value, di,
          branch_possible_moves, bi, best_branch_value, exact, evals, nmoves,
          ply_start, pre_game, rollout_scores, last_call>>

searchLocals == <<root_game, test_game, best_branch_game, final_depth,
                  scoring_fn, top_possible_moves, mi, best_move, best_value,
                  di, branch_possible_moves, bi, best_branch_value>>

history == <<evals, nmoves, ply_start, pre_game, rollout_scores, last_call>>

game == heap["game"]

Depths == (-NegDepths)..MaxDepth

PliesPlayed(g) ==
    IF g.cls = "ConnectFour"
    THEN Cardinality({rc \in Rows \X Cols : g.board[rc[1]][rc[2]] # 0})
    ELSE 0

IdleLocals ==
    /\ root_game = "null" /\ test_game = "null" /\ best_branch_game = "null"
    /\ final_depth = 0 /\ scoring_fn = "None"
    /\ top_possible_moves = <<>> /\ mi = 0
    /\ best_move = PyNone /\ best_value = PyNone
    /\ di = 0 /\ branch_possible_moves = <<>> /\ bi = 0
    /\ best_branch_value = Unbound
    /\ evals = 0 /\ nmoves = [s \in Sites |-> 0]
    /\ ply_start = NoObject /\ pre_game = NoObject /\ rollout_scores = <<>>

Init ==
    /\ \E g0 \in {ConnectFour_init, LastCoinStanding_init} :
          heap = [s \in Sites |-> IF s = "game" THEN g0 ELSE NoObject]
    /\ pc = "idle"
    /\ exact = NoResult
    /\ last_call = NoCall
    /\ IdleLocals

(* ------------------------------------------------------------ game play *)
\* one turn of TwoPlayersGame.play: a move of possible_moves() is applied
\* and the turn passes
PlayMove ==
    /\ pc = "idle"
    /\ ~is_over(game)
    /\ PliesPlayed(game) < MaxPlies \/ game.cls # "ConnectFour"
    /\ \E k \in 1..Len(possible_moves(game)) :
          heap' = [heap EXCEPT !["game"] = ApplyMove(game, possible_moves(game)[k])]
    /\ exact' = NoResult
    /\ UNCHANGED <<pc, searchLocals, history>>

\* Negamax(depth)(game)
ExactSearch ==
    /\ pc = "idle"
    /\ \E d \in 0..MaxExactDepth :
          exact' = [kind |-> "negamax", score |-> negamax(game, d).score,
                    depth |-> d, move |-> negamax(game, d).move]
    /\ UNCHANGED <<heap, pc, searchLocals, history>>

\* the id_solve driver of LastCoinStanding.py
IdSolve ==
    /\ pc = "idle"
    /\ game.cls = "LastCoinStanding"
    /\ exact' = id_solve(game)
    /\ UNCHANGED <<heap, pc, searchLocals, history>>

(* ------------------------------------------------------ stubborn_greedy *)
\* lines 49-51: whether the candidate value replaces the best one;
\* "True", "False", or "TypeError" when the comparison raises
Improves_ge(v, best) ==
    IF best = PyNone \/ v = best THEN "True" ELSE PyGt(v, best)

Improves(v, best) == IF best = PyNone THEN "True" ELSE PyGt(v, best)

\* StubbornGreedy.__call__ entering stubborn_greedy, lines 27-34
Call ==
    /\ pc = "idle"
    /\ \E d \in Depths, fn \in ScoringFns(game.cls) :
          /\ final_depth' = d
          /\ scoring_fn' = fn
    /\ top_possible_moves' = possible_moves(game)
    /\ best_move' = PyNone
    /\ best_value' = PyNone
    /\ mi' = 1
    /\ pc' = "top"
    /\ pre_game' = game
    /\ exact' = NoResult
    /\ UNCHANGED <<heap, root_game, test_game, best_branch_game, di,
                   branch_possible_moves, bi, best_branch_value, evals,
                   nmoves, ply_start, rollout_scores, last_call>>

\* one iteration of the loop of line 36 up to the call of line 43, or, for
\* final_depth <= 1, the whole iteration (lines 37-41 and 49-51)
TopMove ==
    /\ pc = "top"
    /\ mi <= Len(top_possible_moves)
    /\ LET move == top_possible_moves[mi]
           c == deepcopy(heap, "game", "copy37")
           h1 == HeapMakeMove(c.heap, c.ref, move)
       IN  /\ heap' = h1
           /\ root_game' = c.ref
           /\ nmoves' = [nmoves EXCEPT ![c.ref] = nmoves["game"] + 1]
           /\ IF final_depth <= 1
              THEN LET root_value == PyInt(scoring(scoring_fn, h1[c.ref]))
                       gt == Improves(root_value, best_value)
                   IN  /\ evals' = evals + 1
                       /\ best_value' = IF gt = "True" THEN root_value ELSE best_value
                       /\ best_move' = IF gt = "True" THEN move ELSE best_move
                       /\ pc' = IF gt = "TypeError" THEN "TypeError" ELSE "top"
                       /\ mi' = mi + 1
                       /\ UNCHANGED <<best_branch_game, di, best_branch_value>>
              ELSE /\ best_branch_game' = c.ref
                   /\ di' = 1
                   /\ best_branch_value' = Unbound
                   /\ pc' = "ply"
                   /\ UNCHANGED <<evals, best_value, best_move, mi>>
    /\ UNCHANGED <<test_game, final_depth, scoring_fn, top_possible_moves,
                   branch_possible_moves, bi, exact, ply_start, pre_game,
                   rollout_scores, last_call>>

\* head of one iteration of the loop of line 64 (lines 65-66)
PlyStart ==
    /\ pc = "ply"
    /\ di <= Len(RolloutRange(final_depth))
    /\ branch_possible_moves' = possible_moves(heap[best_branch_game])
    /\ best_branch_value' = PyNone
    /\ bi' = 1
    /\ ply_start' = heap[best_branch_game]
    /\ pc' = "branch"
    /\ UNCHANGED <<heap, root_game, test_game, best_branch_game, final_depth,
                   scoring_fn, top_possible_moves, mi, best_move, best_value,
                   di, exact, evals, nmoves, pre_game, rollout_scores,
                   last_call>>

\* one iteration of the loop of line 67 (lines 68-73)
BranchMove ==
    /\ pc = "branch"
    /\ bi <= Len(branch_possible_moves)
    /\ LET branch_move == branch_possible_moves[bi]
           c == deepcopy(heap, best_branch_game, "copy68")
           h1 == HeapMakeMove(c.heap, c.ref, branch_move)
           n1 == [nmoves EXCEPT ![c.ref] = nmoves[best_branch_game] + 1]
           value == PyInt(scoring(scoring_fn, h1[c.ref]))
           gt == Improves(value, best_branch_value)
           c2 == deepcopy(h1, c.ref, "copy73")
       IN  /\ test_game' = c.ref
           /\ evals' = evals + 1
           /\ IF gt = "True"
              THEN /\ best_branch_value' = value
                   /\ best_branch_game' = c2.ref
                   /\ heap' = c2.heap
                   /\ nmoves' = [n1 EXCEPT ![c2.ref] = n1[c.ref]]
              ELSE /\ heap' = h1
                   /\ nmoves' = n1
                   /\ UNCHANGED <<best_branch_value, best_branch_game>>
           /\ pc' = IF gt = "TypeError" THEN "TypeError" ELSE "branch"
    /\ bi' = bi + 1
    /\ UNCHANGED <<root_game, final_depth, scoring_fn, top_possible_moves, mi,
                   best_move, best_value, di, branch_possible_moves, exact,
                   ply_start, pre_game, rollout_scores, last_call>>

\* the loop of line 67 is exhausted: next iteration of the loop of line 64
PlyEnd ==
    /\ pc = "branch"
    /\ bi > Len(branch_possible_moves)
    /\ di' = di + 1
    /\ pc' = "ply"
    /\ UNCHANGED <<heap, root_game, test_game, best_branch_game, final_depth,
                   scoring_fn, top_possible_moves, mi, best_move, best_value,
                   branch_possible_moves, bi, best_branch_value, exact, evals,
                   nmoves, ply_start, pre_game, rollout_scores, last_call>>

\* the loop of line 64 is exhausted: the return of line 75, then lines 44-51
RabbitReturn ==
    /\ pc = "ply"
    /\ di > Len(RolloutRange(final_depth))
    /\ IF best_branch_value = Unbound
       THEN /\ pc' = "UnboundLocalError"
            /\ UNCHANGED <<best_value, best_move, mi, rollout_scores>>
       ELSE LET value == PyTuple(<<best_branch_value,
                                   PyInt(heap[best_branch_game].nplayer)>>)
                root_value == IF final_depth % 2 = 0 THEN value
                              ELSE PyNegate(value)
                gt == Improves(root_value, best_value)
            IN  /\ best_value' = IF gt = "True" THEN root_value ELSE best_value
                /\ best_move' = IF gt = "True" THEN top_possible_moves[mi]
                                ELSE best_move
                /\ pc' = IF gt = "TypeError" THEN "TypeError" ELSE "top"
                /\ mi' = mi + 1
                /\ rollout_scores' = Append(rollout_scores, best_branch_value)
    /\ UNCHANGED <<heap, root_game, test_game, best_branch_game, final_depth,
                   scoring_fn, top_possible_moves, di, branch_possible_moves,
                   bi, best_branch_value, exact, evals, nmoves, ply_start,
                   pre_game, last_call>>

\* the loop of line 36 is exhausted: line 53, then __call__ lines 129-130
Return ==
    /\ pc = "top"
    /\ mi > Len(top_possible_moves)
    /\ heap' = [heap EXCEPT !["game"].ai_move = best_move]
    /\ pc' = "returned"
    /\ UNCHANGED <<searchLocals, exact, history>>

\* control is back in the caller; the locals and the copies are dropped
Finish ==
    /\ pc = "returned"
    /\ pc' = "idle"
    /\ heap' = [s \in Sites |-> IF s = "game" THEN heap[s] ELSE NoObject]
    /\ root_game' = "null" /\ test_game' = "null" /\ best_branch_game' = "null"
    /\ final_depth' = 0 /\ scoring_fn' = "None"
    /\ top_possible_moves' = <<>> /\ mi' = 0
    /\ best_move' = PyNone /\ best_value' = PyNone
    /\ di' = 0 /\ branch_possible_moves' = <<>> /\ bi' = 0
    /\ best_branch_value' = Unbound
    /\ evals' = 0 /\ nmoves' = [s \in Sites |-> 0]
    /\ ply_start' = NoObject /\ pre_game' = NoObject /\ rollout_scores' = <<>>
    /\ UNCHANGED <<exact, last_call>>

Next ==
    \/ PlayMove
    \/ ExactSearch
    \/ IdSolve
    \/ Call
    \/ TopMove
    \/ PlyStart
    \/ BranchMove
    \/ PlyEnd
    \/ RabbitReturn
    \/ Return
    \/ Finish

Spec == Init /\ [][Next]_vars

(* ------------------------------------------- direct calls of make_move *)
\* arguments a caller may hand to make_move, legal or not
RawColumns == {0, 6}
RawCoinCounts == {0, 1, 4, 5}
RawOverdraw == 5

RawMoves(g) ==
    IF g.cls = "ConnectFour" THEN {PyInt(c) : c \in RawColumns}
    ELSE {PyStr(str(n)) : n \in RawCoinCounts}

IsLegal(g, move) == \E k \in 1..Len(possible_moves(g)) : possible_moves(g)[k] = move

\* game.make_move(move) called directly; neither class raises
RawMakeMove ==
    /\ pc = "idle"
    /\ game.cls = "LastCoinStanding" => game.num_coins > -RawOverdraw
    /\ \E move \in RawMoves(game) :
          /\ heap' = [heap EXCEPT !["game"] = make_move(game, move)]
          /\ last_call' = [op |-> "make_move", move |-> move,
                           legal |-> IsLegal(game, move), before |-> game,
                           raised |-> "none"]
    /\ UNCHANGED <<pc, searchLocals, exact, evals, nmoves, ply_start, pre_game,
                   rollout_scores>>

\* game.switch_player() called directly
SwitchPlayer ==
    /\ pc = "idle"
    /\ heap' = [heap EXCEPT !["game"] = switch_player(game)]
    /\ last_call' = NoCall
    /\ UNCHANGED <<pc, searchLocals, exact, evals, nmoves, ply_start, pre_game,
                   rollout_scores>>

NextRaw ==
    \/ RawMakeMove
    \/ SwitchPlayer

SpecRaw == Init /\ [][NextRaw]_vars

(* ------------------------------------------------- play from the start *)
MaxPlayPlies == 7

\* a full game without four in a line: columns 0, 1, 4, 5 are filled
\* 1,2,1,2,1,2 from the bottom and columns 2, 3, 6 are filled 2,1,2,1,2,1
DrawScript ==
    <<0, 2, 2, 0, 0, 2, 2, 0, 0, 2, 2, 0,
      1, 3, 3, 1, 1, 3, 3, 1, 1, 3, 3, 1,
      4, 6, 6, 4, 4, 6, 6, 4, 4, 6, 6, 4,
      5, 5, 5, 5, 5, 5>>

\* the game after the first n moves of the script
RECURSIVE ScriptGame(_)
ScriptGame(n) ==
    IF n = 0 THEN ConnectFour_init
    ELSE ApplyMove(ScriptGame(n - 1), PyInt(DrawScript[n]))

\* the moves a player is given to choose from: every legal move during the
\* first MaxPlayPlies plies of ConnectFour, the scripted move afterwards
Offered(g, move) ==
    \/ g.cls = "LastCoinStanding"
    \/ PliesPlayed(g) < MaxPlayPlies
    \/ /\ PliesPlayed(g) < Len(DrawScript)
       /\ move = PyInt(DrawScript[PliesPlayed(g) + 1])
       /\ g.board = ScriptGame(PliesPlayed(g)).board

\* one turn of TwoPlayersGame.play, with the turns counted
PlayTurn ==
    /\ pc = "idle"
    /\ ~is_over(game)
    /\ \E k \in 1..Len(possible_moves(game)) :
          /\ Offered(game, possible_moves(game)[k])
          /\ heap' = [heap EXCEPT !["game"] = ApplyMove(game, possible_moves(game)[k])]
    /\ nmoves' = [nmoves EXCEPT !["game"] = nmoves["game"] + 1]
    /\ UNCHANGED <<pc, searchLocals, exact, evals, ply_start, pre_game,
                   rollout_scores, last_call>>

NextPlay ==
    \/ PlayTurn

SpecPlay == Init /\ [][NextPlay]_vars

(* ------------------------------------------- positions for loss_condition *)
PatLen == 5

Directions == {<<0, 1>>, <<1, 0>>, <<1, 1>>, <<1, -1>>}

OnBoard(r, c) == r \in Rows /\ c \in Cols

\* pat written from cell s along direction d, clipped to the board; every
\* cell under a written cell holds fill, so that the pieces rest on each other
Target(s, d, pat, fill) ==
    [r \in Rows |-> [c \in Cols |->
        IF \E i \in 1..Len(pat) : <<r, c>> = <<s[1] + (i - 1) * d[1], s[2] + (i - 1) * d[2]>>
        THEN pat[CHOOSE i \in 1..Len(pat) :
                    <<r, c>> = <<s[1] + (i - 1) * d[1], s[2] + (i - 1) * d[2]>>]
        ELSE IF \E i \in 1..Len(pat) : /\ c = s[2] + (i - 1) * d[2]
                                        /\ r < s[1] + (i - 1) * d[1]
                                        /\ OnBoard(s[1] + (i - 1) * d[1], c)
             THEN fill
             ELSE 0]]

\* the game after make_move calls that put the first n cells of target in
\* place, rows from the bottom, each piece dropped by the player it belongs to
RECURSIVE Dropped(_, _)
Dropped(target, n) ==
    IF n = 0 THEN ConnectFour_init
    ELSE LET g == Dropped(target, n - 1)
             r == (n - 1) \div 7
             c == (n - 1) % 7
         IN  IF target[r][c] = 0 THEN g
             ELSE [C4_make_move([g EXCEPT !.nplayer = target[r][c]], PyInt(c))
                      EXCEPT !.nplayer = 1]

ScanGames ==
    {Dropped(Target(<<r, c>>, d, pat, fill), 42) :
        r \in Rows, c \in Cols, d \in Directions,
        pat \in [1..PatLen -> {1, 2}], fill \in {1, 2}}
    \cup {ConnectFour_init, [ScriptGame(Len(DrawScript)) EXCEPT !.nplayer = 1]}

InitBoards ==
    /\ \E g0 \in ScanGames :
          heap = [s \in Sites |-> IF s = "game" THEN g0 ELSE NoObject]
    /\ pc = "idle"
    /\ exact = NoResult
    /\ last_call = NoCall
    /\ IdleLocals

\* game.is_over() called directly, with the loss_condition() it evaluates
QueryOver ==
    /\ pc = "idle"
    /\ last_call' = [op |-> "is_over", loss |-> loss_condition(game),
                     over |-> is_over(game)]
    /\ UNCHANGED <<heap, pc, searchLocals, exact, evals, nmoves, ply_start,
                   pre_game, rollout_scores>>

NextBoards ==
    \/ QueryOver
    \/ SwitchPlayer

SpecBoards == InitBoards /\ [][NextBoards]_vars

(* ================================================================ claims *)
Searching == pc \in {"top", "ply", "branch", "returned"}

IsLCS == game.cls = "LastCoinStanding"

C2_Win30 ==
    (exact.kind = "id_solve" /\ IsLCS /\ game.num_coins = 30)
        => /\ exact.score = win_score
           /\ exact.move # PyNone
           /\ id_solve(ApplyMove(game, exact.move)).score = -win_score

C2_Witness ==
    /\ exact.kind = "id_solve" /\ IsLCS /\ game.num_coins = 30
    /\ exact.score = win_score

\* the sign-corrected value the claim C3 gives to the k-th candidate
SignCorrected(k) ==
    IF final_depth % 2 = 0 THEN rollout_scores[k].i ELSE -rollout_scores[k].i

\* C3: for final_depth >= 3 stubborn_greedy returns the first-enumerated
\* top-level move whose sign-corrected rollout score (the score itself for
\* even depth, its negation for odd depth) is maximal.
C3_FirstMaxSignCorrected ==
    (/\ pc = "returned" /\ final_depth >= 3
     /\ Len(top_possible_moves) > 0
     /\ \A k \in 1..Len(rollout_scores) : rollout_scores[k].t = "int")
        => \E k \in 1..Len(top_possible_moves) :
              /\ best_move = top_possible_moves[k]
              /\ \A j \in 1..Len(top_possible_moves) :
                    SignCorrected(j) <= SignCorrected(k)
              /\ \A j \in 1..(k - 1) : SignCorrected(j) < SignCorrected(k)

\* C4: every candidate of a rollout ply is applied to a copy of the state
\* the rollout had at the start of the ply, and the state committed at the
\* end of the ply is that state with the first best-scoring move applied.
C4_SiblingsShareBase ==
    (pc = "branch" /\ bi > 1)
        => /\ heap[test_game] = make_move(ply_start, branch_possible_moves[bi - 1])
           /\ bi > Len(branch_possible_moves) =>
                \E k \in 1..Len(branch_possible_moves) :
                   /\ heap[best_branch_game] =
                         make_move(ply_start, branch_possible_moves[k])
                   /\ \A j \in 1..Len(branch_possible_moves) :
                         scoring(scoring_fn, make_move(ply_start, branch_possible_moves[j]))
                            <= best_branch_value.i
                   /\ \A j \in 1..(k - 1) :
                         scoring(scoring_fn, make_move(ply_start, branch_possible_moves[j]))
                            < best_branch_value.i

\* C5: a simulated state k moves below the root has the root mover to move
\* when k is even and the opponent when k is odd.
C5_PlayerAlternates ==
    Searching =>
        \A s \in Sites \ {"game"} :
            heap[s] # NoObject =>
                heap[s].nplayer = IF nmoves[s] % 2 = 0 THEN pre_game.nplayer
                                  ELSE nopponent(pre_game)

\* C6: make_move with a move that is not in possible_moves() fails with
\* InvalidMove and leaves the game state unchanged.
C6_InvalidMoveRejected ==
    (last_call.op = "make_move" /\ ~last_call.legal)
        => /\ last_call.raised = "InvalidMove"
           /\ game = last_call.before

\* C7: a call of stubborn_greedy leaves the caller's board or num_coins and
\* its player to move as they were before the call.
C7_CallerGameUnchanged ==
    (pc # "idle")
        => /\ game.cls = pre_game.cls
           /\ game.nplayer = pre_game.nplayer
           /\ game.cls = "ConnectFour" => game.board = pre_game.board
           /\ game.cls = "LastCoinStanding" =>
                 /\ game.num_coins = pre_game.num_coins
                 /\ game.max_coins = pre_game.max_coins

C7_Witness ==
    /\ pc = "returned" /\ final_depth >= 3
    /\ best_move # PyNone /\ game.ai_move = best_move
    /\ heap[best_branch_game] # pre_game

\* C8: for final_depth > 2 the final rollout state of every candidate lies
\* exactly final_depth - 1 moves below the root (final_depth - 2 below the
\* candidate's state).
C8_RolloutLength ==
    (pc = "top" /\ mi > 1 /\ final_depth > 2)
        => /\ nmoves[best_branch_game] = final_depth - 1
           /\ nmoves[best_branch_game] - nmoves[root_game] = final_depth - 2

\* C9: on a game with exactly N legal moves in every state, one call with
\* depth D >= 0 evaluates the scoring function at most N + N*N*D times.
C9_EvalBound ==
    (pc # "idle" /\ IsLCS /\ final_depth >= 0)
        => evals <= game.max_coins + game.max_coins * game.max_coins * final_depth

C9_Witness ==
    /\ pc = "returned" /\ IsLCS /\ final_depth >= 3
    /\ Len(top_possible_moves) = game.max_coins
    /\ evals = game.max_coins * game.max_coins * (final_depth - 2)

\* C10: on the empty ConnectFour board exact search at depth 1 returns
\* score 0 and column 0; the moves are the columns 0..6 in ascending order
\* and no move leads to a state where loss_condition holds.
C10_EmptyBoardDepth1 ==
    (/\ exact.kind = "negamax" /\ exact.depth = 1
     /\ game.cls = "ConnectFour" /\ game.board = EmptyBoard)
        => /\ exact.score = 0
           /\ exact.move = PyInt(0)
           /\ possible_moves(game) = [k \in 1..7 |-> PyInt(k - 1)]
           /\ \A k \in 1..7 : ~loss_condition(ApplyMove(game, possible_moves(game)[k]))

C10_Witness ==
    /\ exact.kind = "negamax" /\ exact.depth = 1
    /\ game.cls = "ConnectFour" /\ game.board = EmptyBoard
    /\ exact.move = PyInt(0)

\* the score of the state the k-th top-level move leads to from the root
TopScore(k) == scoring(scoring_fn, make_move(pre_game, top_possible_moves[k]))

\* C11: for final_depth <= 1 there is no rollout: each candidate's value is
\* the score of the state the move leads to, unchanged in sign, and the
\* first-enumerated move of maximal score is returned.
C11_NoRollout ==
    (pc = "returned" /\ final_depth <= 1 /\ Len(top_possible_moves) > 0)
        => /\ rollout_scores = <<>>
           /\ evals = Len(top_possible_moves)
           /\ \E k \in 1..Len(top_possible_moves) :
                 /\ best_move = top_possible_moves[k]
                 /\ best_value = PyInt(TopScore(k))
                 /\ \A j \in 1..Len(top_possible_moves) : TopScore(j) <= TopScore(k)
                 /\ \A j \in 1..(k - 1) : TopScore(j) < TopScore(k)

C11_Witness ==
    /\ pc = "returned" /\ final_depth <= 0
    /\ best_move # PyNone
    /\ best_move # top_possible_moves[1]

\* C13: for final_depth >= 2 the value compared for every candidate is a
\* defined number, the score of the final rollout state, also when the
\* rollout runs no ply (final_depth = 2); no call ends in an unbound or
\* ill-typed value.
C13_RolloutValueDefined ==
    final_depth >= 2
        => /\ pc \notin {"UnboundLocalError", "TypeError"}
           /\ (pc = "top" /\ mi > 1) =>
                 /\ rollout_scores[mi - 1] =
                       PyInt(scoring(scoring_fn, heap[best_branch_game]))
                 /\ best_value.t = "int"

\* C12: in every state reached by legal play, possible_moves() is empty only
\* if is_over() is true; a ConnectFour board without a playable column is
\* terminal.
C12_NoMovesOnlyWhenOver ==
    Len(possible_moves(game)) = 0 => is_over(game)

C12_Witness ==
    /\ game.cls = "ConnectFour"
    /\ Len(possible_moves(game)) = 0
    /\ is_over(game) /\ ~loss_condition(game)

\* every column's pieces form a run that starts at row 0
Gravity(board) ==
    \A c \in Cols, r \in Rows :
        board[r][c] # 0 => \A q \in Rows : q < r => board[q][c] # 0

\* the step changes cell <<r, c>> and no other, from empty to the mover's
\* number, <<r, c>> being the lowest empty cell of a playable column
OneDrop(r, c) ==
    /\ game.board[r][c] = 0
    /\ game'.board[r][c] = game.nplayer
    /\ \A q \in Rows : q < r => game.board[q][c] # 0
    /\ IsLegal(game, PyInt(c))
    /\ \A r2 \in Rows, c2 \in Cols :
          <<r2, c2>> # <<r, c>> => game'.board[r2][c2] = game.board[r2][c2]

\* C14: under legal play every ConnectFour column is filled from row 0
\* without gaps, and each move changes exactly one cell, the lowest empty
\* cell of the chosen column, from 0 to the mover's number.
C14_Gravity ==
    [][game.cls = "ConnectFour" =>
          /\ Gravity(game.board)
          /\ Gravity(game'.board)
          /\ game' # game => \E r \in Rows, c \in Cols : OneDrop(r, c)]_vars

C14_Witness ==
    /\ game.cls = "ConnectFour"
    /\ \E c \in Cols : ColMin(game.board, c) # 0
    /\ \E c \in Cols : game.board[0][c] # 0 /\ game.board[5][c] = 0
    /\ ~is_over(game)

\* C16 (as stated): under legal play 0 <= num_coins <= 30.
C16_CoinsNonNegative ==
    IsLCS => (0 <= game.num_coins /\ game.num_coins <= 30)

\* C16 (amended): under legal play 1 - max_coins <= num_coins <= 30, that
\* is -3 <= num_coins <= 30; possible_moves() offers 1..4 whatever the pile
\* holds, and a negative count is met only in a finished game.
C16_CoinsAtLeastMinus3 ==
    IsLCS => /\ 1 - game.max_coins <= game.num_coins
             /\ game.num_coins <= 30
             /\ game.num_coins < 0 => is_over(game)
             /\ Len(possible_moves(game)) = game.max_coins

C16_Witness ==
    IsLCS /\ game.num_coins = -3 /\ nmoves["game"] > 0

\* C17: every legal move strictly decreases num_coins, so a play from 30
\* coins is over after at most 30 moves, and a finished game stays finished
\* under any further move.
C17_PlayTerminates ==
    IsLCS =>
        /\ nmoves["game"] <= 30 - game.num_coins
        /\ nmoves["game"] >= 30 => is_over(game)
        /\ \A k \in 1..Len(possible_moves(game)) :
              LET g2 == make_move(game, possible_moves(game)[k])
              IN  /\ g2.num_coins < game.num_coins
                  /\ is_over(game) => is_over(g2)

C17_Witness ==
    IsLCS /\ nmoves["game"] = 30 /\ is_over(game)

\* four cells of player p next to each other on a row, a column or a diagonal
FourInLine(board, p) ==
    \E r \in Rows, c \in Cols, d \in Directions :
        \A i \in 0..3 : /\ OnBoard(r + i * d[1], c + i * d[2])
                         /\ board[r + i * d[1]][c + i * d[2]] = p

\* every four-cell segment of the board lies on one of the scan lines
SegmentsCovered ==
    \A r \in Rows, c \in Cols, d \in Directions :
        OnBoard(r + 3 * d[1], c + 3 * d[2])
            => \E k \in 1..Len(pos_dir), j \in 0..5 :
                  /\ pos_dir[k][2] = d
                  /\ <<r, c>> = <<pos_dir[k][1][1] + j * d[1], pos_dir[k][1][2] + j * d[2]>>

LossIffFour ==
    /\ last_call.loss <=> FourInLine(game.board, nopponent(game))
    /\ last_call.over <=> (last_call.loss \/ \A r \in Rows, c \in Cols : game.board[r][c] # 0)
    /\ SegmentsCovered

\* C15 as stated: loss_condition() is true exactly when the opponent has four
\* in a line, pos_dir holds 26 scan lines that cover every four-cell segment,
\* and is_over() is loss_condition() or a board without an empty cell
C15_Original ==
    last_call.op = "is_over" => (LossIffFour /\ Len(pos_dir) = 26)

\* C15 amended: the same with the 25 scan lines that pos_dir holds
\* (6 rows, 7 columns, 6 rising and 6 falling diagonals)
C15_LossIffFour ==
    last_call.op = "is_over" => (LossIffFour /\ Len(pos_dir) = 25)

\* is_over() was asked on a board whose only four in a line is on a falling
\* diagonal, and it belongs to the opponent
C15_Witness ==
    /\ last_call.op = "is_over"
    /\ last_call.loss
    /\ \E r \in Rows, c \in Cols :
          \A i \in 0..3 : /\ OnBoard(r + i, c - i)
                           /\ game.board[r + i][c - i] = nopponent(game)
    /\ ~\E r \in Rows, c \in Cols, d \in Directions \ {<<1, -1>>} :
          \A i \in 0..3 : /\ OnBoard(r + i * d[1], c + i * d[2])
                           /\ game.board[r + i * d[1]][c + i * d[2]] = nopponent(game)


====
